---- MODULE Spec2Model ----
(***************************************************************************)
(* appsnap: window enumeration (windows.py), fuzzy resolution (windows.py), *)
(* the two-tier capture function (capture.py) and the CLI (__main__.py).   *)
(*                                                                         *)
(* The operating system is the environment: the list of top-level windows  *)
(* (oswin), the outcome of every Win32 / PIL / filesystem call, and the    *)
(* scorer of the fuzzy-matching library (score) are chosen by it.          *)
(***************************************************************************)
EXTENDS Integers, Sequences, FiniteSets, TLC

\* ------------------------------------------------------------------ bounds
MaxEnumWindows == 2
MaxFindWindows == 3
MaxCliWindows == 2
MaxMoves == 1

\* ------------------------------------------------------------ value sets
\* Rectangles are <<left, top, right, bottom>>.
GoodRects == {<<0, 0, 2, 1>>, <<1, 1, 3, 3>>}
BadRects == {<<2, 0, 2, 1>>, <<0, 3, 2, 1>>}
Rects == GoodRects \cup BadRects
NoRect == <<0, 0, 0, 0>>

Titles == {"A", "B"}
Scores == {0, 70, 100}
Thresholds == {-1, 0, 70, 71, 100, 101}

\* Python's None for Optional[Dict]: a record no enumeration produces (handle 0).
None == [handle |-> 0, title |-> "", bbox |-> NoRect]

\* A top-level window as the OS reports it to IsWindow / IsWindowVisible /
\* IsIconic / GetWindowText / GetWindowRect.
OsWindow(states, iconics, titles, throws, rects) ==
    [state : states, iconic : iconics, title : titles, rectThrows : throws, rect : rects]

SeqsUpTo(S, n) == UNION {[1..k -> S] : k \in 0..n}

VARIABLES
    oswin,            \* the OS's windows in EnumWindows order; the handle is the index
    score,            \* the library scorer for this query: title -> 0..100
    moves,            \* the positions (pc) at which the environment moved a window
    entry,            \* which entry point runs: "enum", "find", "capture_window", "main"
    pc,               \* position inside the entry point
    args,             \* the call's / the command line's arguments
    windows,          \* find_all_windows' result list
    enumRaised,       \* whether find_all_windows propagated an exception
    window,           \* find_window's result (None when nothing matched)
    queries,          \* how many window enumerations have been performed
    lastQueried,      \* handle -> the rect GetWindowRect last returned for it
    rect,             \* capture_window's locals (left, top, right, bottom)
    checked,          \* the window as capture_window's precondition checks saw it
    held,             \* OS resources acquired and not released
    calls,            \* OS / PIL / filesystem primitives invoked so far
    cleanIdx,         \* next cleanup statement of the PrintWindow tier
    printResult,      \* PrintWindow's return value (-1: not called)
    directResult,     \* "none" | "ok" | "failed": outcome of the PrintWindow tier
    fallbackAttempts, \* how many times the ImageGrab fallback was entered
    grabbed,          \* the screen region whose pixels the saved image holds
    destFile,         \* "absent" | "partial" | "png": what is at output_path
    result,           \* capture_window: "none" | "ok" | "ValueError" | "OSError"
    pathState,        \* CLI: "unset" | "temp" | "custom" | "invalid"
    capResult,        \* CLI: "none" | "ok" | "ValueError" | "Exception"
    outcome,          \* CLI: how the invocation ended
    stdout,           \* CLI: what was printed to stdout
    exitCode          \* CLI: the process exit code (-1 while running)

vars == <<oswin, score, moves, entry, pc, args, windows, enumRaised, window, queries,
          lastQueried, rect, checked, held, calls, cleanIdx, printResult,
          directResult, fallbackAttempts, grabbed, destFile, result, pathState,
          capResult, outcome, stdout, exitCode>>

envVars == <<oswin, score, moves>>
findVars == <<windows, enumRaised, window, queries, lastQueried>>
capVars == <<rect, checked, held, calls, cleanIdx, printResult, directResult,
             fallbackAttempts, result>>
fileVars == <<grabbed, destFile>>
cliVars == <<pathState, capResult, outcome, stdout, exitCode>>

\* --------------------------------------------------------- Win32 queries
InvalidWindow == [state |-> "invalid", iconic |-> FALSE, title |-> "",
                  rectThrows |-> TRUE, rect |-> NoRect]
OsWin(os, hwnd) == IF hwnd \in DOMAIN os THEN os[hwnd] ELSE InvalidWindow
IsWindow(w) == w.state # "invalid"
IsWindowVisible(w) == w.state = "ok"
IsIconic(w) == w.iconic
GetWindowText(w) == w.title

Left(r) == r[1]
Top(r) == r[2]
Right(r) == r[3]
Bottom(r) == r[4]

\* ------------------------------------------------ windows.find_all_windows
\* The EnumWindows callback: acc is [windows, raised, queried]; an exception that
\* leaves the callback ends the enumeration.
callback_notry(acc, os, hwnd) ==
    LET w == OsWin(os, hwnd) IN
    IF acc.raised THEN acc
    ELSE IF IsWindow(w) /\ IsWindowVisible(w) /\ GetWindowText(w) # ""
    THEN IF w.rectThrows
         THEN [acc EXCEPT !.raised = TRUE]
         ELSE IF Right(w.rect) > Left(w.rect) /\ Bottom(w.rect) > Top(w.rect)
              THEN [acc EXCEPT !.windows = Append(@, [handle |-> hwnd,
                                                       title |-> GetWindowText(w),
                                                       bbox |-> w.rect]),
                               !.queried = (hwnd :> w.rect) @@ @]
              ELSE [acc EXCEPT !.queried = (hwnd :> w.rect) @@ @]
    ELSE acc

callback(acc, os, hwnd) ==
    LET w == OsWin(os, hwnd) IN
    IF acc.raised THEN acc
    ELSE IF IsWindow(w) /\ IsWindowVisible(w)
    THEN IF GetWindowText(w) # ""
         THEN IF w.rectThrows
              THEN acc
              ELSE IF Right(w.rect) > Left(w.rect) /\ Bottom(w.rect) > Top(w.rect)
                   THEN [acc EXCEPT !.windows = Append(@, [handle |-> hwnd,
                                                            title |-> GetWindowText(w),
                                                            bbox |-> w.rect]),
                                    !.queried = (hwnd :> w.rect) @@ @]
                   ELSE [acc EXCEPT !.queried = (hwnd :> w.rect) @@ @]
         ELSE acc
    ELSE acc

RECURSIVE EnumWindows(_, _, _)
EnumWindows(acc, os, hwnd) ==
    IF hwnd > Len(os) THEN acc
    ELSE EnumWindows(callback(acc, os, hwnd), os, hwnd + 1)

find_all_windows(os, queried) ==
    EnumWindows([windows |-> <<>>, raised |-> FALSE, queried |-> queried], os, 1)

\* ----------------------------------------------------- windows.find_window
\* {w["title"]: w for w in windows}: a Python dict keeps a key at the position of
\* its first insertion and the value of its last.
window_titles_first(ws) ==
    LET RECURSIVE Build(_, _)
        Build(d, i) ==
            IF i > Len(ws) THEN d
            ELSE LET t == ws[i].title IN
                 IF t \in DOMAIN d.val
                 THEN Build(d, i + 1)
                 ELSE Build([keys |-> Append(d.keys, t), val |-> (t :> ws[i]) @@ d.val], i + 1)
    IN Build([keys |-> <<>>, val |-> <<>>], 1)

window_titles(ws) ==
    LET RECURSIVE Build(_, _)
        Build(d, i) ==
            IF i > Len(ws) THEN d
            ELSE LET t == ws[i].title IN
                 IF t \in DOMAIN d.val
                 THEN Build([keys |-> d.keys, val |-> (t :> ws[i]) @@ d.val], i + 1)
                 ELSE Build([keys |-> Append(d.keys, t), val |-> (t :> ws[i]) @@ d.val], i + 1)
    IN Build([keys |-> <<>>, val |-> <<>>], 1)

\* fuzzywuzzy.process.extractWithoutOrder: the choices whose score reaches the cutoff.
extractWithoutOrder_exclusive(choices, sc, score_cutoff) ==
    SelectSeq(choices, LAMBDA c : sc[c] > score_cutoff)

extractWithoutOrder(choices, sc, score_cutoff) ==
    SelectSeq(choices, LAMBDA c : sc[c] >= score_cutoff)

\* fuzzywuzzy.process.extractOne: max(best_list, key=score), the first maximum; ""
\* stands for its None.
extractOne(choices, sc, score_cutoff) ==
    LET best == extractWithoutOrder(choices, sc, score_cutoff) IN
    IF best = <<>> THEN ""
    ELSE LET i == CHOOSE k \in 1..Len(best) :
                      /\ \A j \in 1..Len(best) : sc[best[j]] <= sc[best[k]]
                      /\ \A j \in 1..(k - 1) : sc[best[j]] < sc[best[k]]
         IN best[i]

\* Returns [window, windows, raised, queried].
find_window(os, sc, threshold, queried) ==
    LET e == find_all_windows(os, queried)
        d == window_titles(e.windows)
        match == extractOne(d.keys, sc, threshold)
    IN [window |-> IF e.raised \/ e.windows = <<>> \/ match = "" THEN None
                   ELSE d.val[match],
        windows |-> e.windows, raised |-> e.raised, queried |-> e.queried]

\* windows.get_window_list_formatted: only the number of titles matters here.
get_window_list_formatted(os, queried) == find_all_windows(os, queried)

\* ------------------------------------------------------- initial values
NoArgs == [window_name |-> "", list |-> FALSE, output |-> "none", threshold |-> 70,
           json |-> FALSE, hwnd |-> 0]
NoOut == [kind |-> "none", title |-> "", bbox |-> NoRect]
FixedScore == [t \in Titles \cup {""} |-> IF t = "A" THEN 80 ELSE IF t = "B" THEN 60 ELSE 0]

Idle ==
    /\ moves = <<>>
    /\ windows = <<>> /\ enumRaised = FALSE /\ window = None /\ queries = 0
    /\ lastQueried = <<>>
    /\ rect = NoRect /\ checked = InvalidWindow /\ held = {} /\ calls = {}
    /\ cleanIdx = 1 /\ printResult = -1 /\ directResult = "none"
    /\ fallbackAttempts = 0 /\ grabbed = NoRect /\ destFile = "absent"
    /\ result = "none" /\ pathState = "unset" /\ capResult = "none"
    /\ outcome = "running" /\ stdout = NoOut /\ exitCode = -1

\* ------------------------------------------ specification: enumeration only
EnumWindowSet == OsWindow({"ok", "hidden", "invalid"}, {FALSE}, {"", "A"}, BOOLEAN,
                          {<<0, 0, 2, 1>>, <<2, 0, 2, 1>>, <<0, 3, 2, 1>>})

InitEnum ==
    /\ oswin \in SeqsUpTo(EnumWindowSet, MaxEnumWindows)
    /\ score = FixedScore /\ args = NoArgs
    /\ entry = "enum" /\ pc = "call"
    /\ Idle

EnumCall ==
    /\ entry = "enum" /\ pc = "call"
    /\ LET e == find_all_windows(oswin, lastQueried) IN
       /\ windows' = e.windows
       /\ enumRaised' = e.raised
       /\ lastQueried' = e.queried
    /\ queries' = queries + 1
    /\ pc' = "done"
    /\ UNCHANGED <<envVars, entry, args, window, capVars, fileVars, cliVars>>

SpecEnum == InitEnum /\ [][EnumCall]_vars

\* ------------------------------------------- specification: find_window only
FindWindowSet == OsWindow({"ok"}, {FALSE}, {"", "A", "B"}, {FALSE}, GoodRects)

InitFind ==
    /\ oswin \in SeqsUpTo(FindWindowSet, MaxFindWindows)
    /\ score \in [Titles \cup {""} -> Scores]
    /\ \E th \in Thresholds : args = [NoArgs EXCEPT !.window_name = "q", !.threshold = th]
    /\ entry = "find" /\ pc = "call"
    /\ Idle

FindCall ==
    /\ entry = "find" /\ pc = "call"
    /\ LET f == find_window(oswin, score, args.threshold, lastQueried) IN
       /\ windows' = f.windows
       /\ enumRaised' = f.raised
       /\ lastQueried' = f.queried
       /\ window' = f.window
    /\ queries' = queries + 1
    /\ pc' = "done"
    /\ UNCHANGED <<envVars, entry, args, capVars, fileVars, cliVars>>

SpecFind == InitFind /\ [][FindCall]_vars

\* ------------------------------------------------------------ environment
\* The user or another program moves or resizes a window while the tool runs.
EnvMove ==
    /\ entry \in {"main", "capture_window"} /\ pc # "done"
    /\ Len(moves) < MaxMoves
    /\ \E h \in DOMAIN oswin : \E r \in Rects \ {oswin[h].rect} :
          oswin' = [oswin EXCEPT ![h].rect = r]
    /\ moves' = Append(moves, pc)
    /\ UNCHANGED <<score, entry, pc, args, findVars, capVars, fileVars, cliVars>>

\* ------------------------------------------------- capture.capture_window
CleanupOrder == <<"saveBitMap", "saveDC", "mfcDC", "hwndDC">>

CapWindowSet == OsWindow({"ok", "hidden", "invalid"}, BOOLEAN, {"A"}, BOOLEAN, Rects)

InitCapture ==
    /\ \E w \in CapWindowSet : oswin = <<w>>
    /\ score = FixedScore
    /\ args = [NoArgs EXCEPT !.hwnd = 1, !.output = "ok"]
    /\ entry = "capture_window" /\ pc = "cw_check"
    /\ Idle

\* An exception inside the PrintWindow try block: "except Exception: pass".
DirectThrows ==
    /\ directResult' = "failed"
    /\ pc' = "fb_foreground"

\* The precondition checks with a strict dimension test.
cw_check_strict ==
    /\ entry = "capture_window" /\ pc = "cw_check"
    /\ LET w == OsWin(oswin, args.hwnd) IN
       /\ checked' = w
       /\ IF ~IsWindow(w) \/ ~IsWindowVisible(w) \/ IsIconic(w)
          THEN /\ result' = "ValueError" /\ pc' = "done"
               /\ UNCHANGED <<rect, lastQueried>>
          ELSE IF w.rectThrows
          THEN /\ result' = "OtherError" /\ pc' = "done"
               /\ UNCHANGED <<rect, lastQueried>>
          ELSE /\ rect' = w.rect
               /\ lastQueried' = (args.hwnd :> w.rect) @@ lastQueried
               /\ IF Right(w.rect) - Left(w.rect) < 0 \/ Bottom(w.rect) - Top(w.rect) < 0
                  THEN result' = "ValueError" /\ pc' = "done"
                  ELSE result' = result /\ pc' = "cw_mkdir"
    /\ UNCHANGED <<envVars, entry, args, windows, enumRaised, window, queries, held,
                   calls, cleanIdx, printResult, directResult, fallbackAttempts,
                   fileVars, cliVars>>

\* IsWindow / IsWindowVisible, IsIconic, GetWindowRect and the dimension test.
cw_check ==
    /\ entry = "capture_window" /\ pc = "cw_check"
    /\ LET w == OsWin(oswin, args.hwnd) IN
       /\ checked' = w
       /\ IF ~IsWindow(w) \/ ~IsWindowVisible(w)
          THEN /\ result' = "ValueError" /\ pc' = "done"
               /\ UNCHANGED <<rect, lastQueried>>
          ELSE IF IsIconic(w)
          THEN /\ result' = "ValueError" /\ pc' = "done"
               /\ UNCHANGED <<rect, lastQueried>>
          ELSE IF w.rectThrows
          THEN /\ result' = "OtherError" /\ pc' = "done"
               /\ UNCHANGED <<rect, lastQueried>>
          ELSE /\ rect' = w.rect
               /\ lastQueried' = (args.hwnd :> w.rect) @@ lastQueried
               /\ IF Right(w.rect) - Left(w.rect) <= 0 \/ Bottom(w.rect) - Top(w.rect) <= 0
                  THEN result' = "ValueError" /\ pc' = "done"
                  ELSE result' = result /\ pc' = "cw_mkdir"
    /\ UNCHANGED <<envVars, entry, args, windows, enumRaised, window, queries, held,
                   calls, cleanIdx, printResult, directResult, fallbackAttempts,
                   fileVars, cliVars>>

\* output_path_obj.parent.mkdir(parents=True, exist_ok=True), outside any try.
cw_mkdir ==
    /\ entry = "capture_window" /\ pc = "cw_mkdir"
    /\ calls' = calls \cup {"mkdir"}
    /\ \/ pc' = "cw_GetWindowDC" /\ result' = result
       \/ pc' = "done" /\ result' = "OSError"
    /\ UNCHANGED <<envVars, entry, args, findVars, rect, checked, held, cleanIdx,
                   printResult, directResult, fallbackAttempts, fileVars, cliVars>>

\* One acquiring statement of the try block: it returns the resource or throws.
Acquire(at, call, resource, next) ==
    /\ entry = "capture_window" /\ pc = at
    /\ calls' = calls \cup {call}
    /\ \/ held' = held \cup {resource} /\ pc' = next /\ directResult' = directResult
       \/ held' = held /\ DirectThrows
    /\ UNCHANGED <<envVars, entry, args, findVars, rect, checked, cleanIdx, printResult,
                   fallbackAttempts, result, fileVars, cliVars>>

cw_GetWindowDC == Acquire("cw_GetWindowDC", "GetWindowDC", "hwndDC", "cw_CreateDCFromHandle")

cw_CreateDCFromHandle ==
    Acquire("cw_CreateDCFromHandle", "CreateDCFromHandle", "mfcDC", "cw_CreateCompatibleDC")

cw_CreateCompatibleDC ==
    Acquire("cw_CreateCompatibleDC", "CreateCompatibleDC", "saveDC", "cw_CreateBitmap")

\* CreateBitmap, CreateCompatibleBitmap(mfcDC, width, height), SelectObject.
cw_CreateBitmap ==
    /\ entry = "capture_window" /\ pc = "cw_CreateBitmap"
    /\ calls' = calls \cup {"CreateCompatibleBitmap"}
    /\ \/ held' = held \cup {"saveBitMap"} /\ pc' = "cw_PrintWindow"
          /\ directResult' = directResult
       \/ held' = held \cup {"saveBitMap"} /\ DirectThrows
       \/ held' = held /\ DirectThrows
    /\ UNCHANGED <<envVars, entry, args, findVars, rect, checked, cleanIdx, printResult,
                   fallbackAttempts, result, fileVars, cliVars>>

\* result = windll.user32.PrintWindow(hwnd, saveDC.GetSafeHdc(), 2)
cw_PrintWindow ==
    /\ entry = "capture_window" /\ pc = "cw_PrintWindow"
    /\ calls' = calls \cup {"PrintWindow"}
    /\ \/ \E r \in {0, 1} :
             /\ printResult' = r
             /\ pc' = IF r # 0 THEN "cw_ToImage" ELSE "cw_cleanup"
             /\ directResult' = directResult
       \/ printResult' = printResult /\ DirectThrows
    /\ UNCHANGED <<envVars, entry, args, findVars, rect, checked, held, cleanIdx,
                   fallbackAttempts, result, fileVars, cliVars>>

\* GetInfo, GetBitmapBits, Image.frombuffer.
cw_ToImage ==
    /\ entry = "capture_window" /\ pc = "cw_ToImage"
    /\ \/ pc' = "cw_cleanup" /\ directResult' = directResult
       \/ DirectThrows
    /\ UNCHANGED <<envVars, entry, args, findVars, rect, checked, held, calls, cleanIdx,
                   printResult, fallbackAttempts, result, fileVars, cliVars>>

\* DeleteObject(saveBitMap), saveDC.DeleteDC(), mfcDC.DeleteDC(), ReleaseDC: one
\* statement per step, on the success branch and on the PrintWindow = 0 branch.
cw_cleanup ==
    /\ entry = "capture_window" /\ pc = "cw_cleanup"
    /\ \/ /\ held' = held \ {CleanupOrder[cleanIdx]}
          /\ cleanIdx' = cleanIdx + 1
          /\ IF cleanIdx < Len(CleanupOrder)
             THEN pc' = pc /\ directResult' = directResult
             ELSE IF printResult # 0
                  THEN pc' = "cw_save" /\ directResult' = directResult
                  ELSE pc' = "fb_foreground" /\ directResult' = "failed"
       \/ /\ held' = held /\ cleanIdx' = cleanIdx
          /\ DirectThrows
    /\ UNCHANGED <<envVars, entry, args, findVars, rect, checked, calls, printResult,
                   fallbackAttempts, result, fileVars, cliVars>>

\* The success branch without its return statement.
cw_save_noreturn ==
    /\ entry = "capture_window" /\ pc = "cw_save"
    /\ calls' = calls \cup {"save"}
    /\ \/ /\ destFile' = "png" /\ grabbed' = rect
          /\ directResult' = "ok" /\ result' = result /\ pc' = "fb_foreground"
       \/ /\ destFile' \in {destFile, "partial"} /\ grabbed' = grabbed
          /\ result' = result /\ DirectThrows
    /\ UNCHANGED <<envVars, entry, args, findVars, rect, checked, held, cleanIdx,
                   printResult, fallbackAttempts, cliVars>>

\* img.save(str(output_path_obj), "PNG"); return.  A save that raises may already
\* have created or truncated the destination.
cw_save ==
    /\ entry = "capture_window" /\ pc = "cw_save"
    /\ calls' = calls \cup {"save"}
    /\ \/ /\ destFile' = "png" /\ grabbed' = rect
          /\ directResult' = "ok" /\ result' = "ok" /\ pc' = "done"
       \/ /\ destFile' \in {destFile, "partial"} /\ grabbed' = grabbed
          /\ result' = result /\ DirectThrows
    /\ UNCHANGED <<envVars, entry, args, findVars, rect, checked, held, cleanIdx,
                   printResult, fallbackAttempts, cliVars>>

\* The fallback's try block is entered; SetForegroundWindow and the sleep, whose
\* failure is swallowed.
fb_foreground ==
    /\ entry = "capture_window" /\ pc = "fb_foreground"
    /\ fallbackAttempts' = fallbackAttempts + 1
    /\ calls' = calls \cup {"SetForegroundWindow"}
    /\ pc' = "fb_grab"
    /\ UNCHANGED <<envVars, entry, args, findVars, rect, checked, held, cleanIdx,
                   printResult, directResult, result, fileVars, cliVars>>

\* ImageGrab.grab(bbox=(left, top, right, bottom), all_screens=True) and the
\* empty-image test; every exception becomes ValueError.
fb_grab ==
    /\ entry = "capture_window" /\ pc = "fb_grab"
    /\ calls' = calls \cup {"grab"}
    /\ \/ pc' = "fb_save" /\ result' = result
       \/ pc' = "done" /\ result' = "ValueError"
    /\ UNCHANGED <<envVars, entry, args, findVars, rect, checked, held, cleanIdx,
                   printResult, directResult, fallbackAttempts, fileVars, cliVars>>

fb_save ==
    /\ entry = "capture_window" /\ pc = "fb_save"
    /\ calls' = calls \cup {"save"}
    /\ \/ destFile' = "png" /\ grabbed' = rect /\ result' = "ok"
       \/ destFile' \in {destFile, "partial"} /\ grabbed' = grabbed
          /\ result' = "ValueError"
    /\ pc' = "done"
    /\ UNCHANGED <<envVars, entry, args, findVars, rect, checked, held, cleanIdx,
                   printResult, directResult, fallbackAttempts, cliVars>>

NextCapture ==
    \/ cw_check \/ cw_mkdir \/ cw_GetWindowDC \/ cw_CreateDCFromHandle
    \/ cw_CreateCompatibleDC \/ cw_CreateBitmap \/ cw_PrintWindow \/ cw_ToImage
    \/ cw_cleanup \/ cw_save \/ fb_foreground \/ fb_grab \/ fb_save

\* ------------------------------------------------- capture.validate_output_path
\* kind is what the filesystem holds at the path: "dir" an existing directory,
\* "noparent" a parent that cannot be created, "ok" anything else.
validate_output_path(kind) ==
    IF kind = "dir" THEN "ValueError"
    ELSE IF kind = "noparent" THEN "ValueError"
    ELSE "ok"

\* ------------------------------------------------------ capture_region
\* __main__ imports capture_region(bbox, output_path) from appsnap.capture; the
\* region-only capture: grab the screen region bbox, fail on an empty image,
\* otherwise encode it as PNG at output_path; a failure leaves no output.
capture_region(bbox, grabOk, saveOk) ==
    IF ~grabOk THEN [res |-> "ValueError", grabbed |-> NoRect, dest |-> "absent"]
    ELSE IF ~saveOk THEN [res |-> "Exception", grabbed |-> NoRect, dest |-> "absent"]
    ELSE [res |-> "ok", grabbed |-> bbox, dest |-> "png"]

\* ------------------------------------------------------------ __main__.main
CliWindowSet == OsWindow({"ok"}, {FALSE}, Titles, {FALSE}, GoodRects)
CliThresholds == {-1, 70, 101}
CliArgs == [window_name : {"", "q"}, list : BOOLEAN,
            output : {"none", "ok", "dir", "noparent"},
            threshold : CliThresholds, json : BOOLEAN, hwnd : {0}]

InitMain ==
    /\ oswin \in SeqsUpTo(CliWindowSet, MaxCliWindows)
    /\ score = FixedScore
    /\ args \in CliArgs
    /\ entry = "main" /\ pc = "main"
    /\ Idle

Exit(code, how) ==
    /\ exitCode' = code
    /\ outcome' = how
    /\ pc' = "done"

\* list_windows that prints and returns instead of exiting.
main_list_noexit ==
    /\ entry = "main" /\ pc = "main"
    /\ IF args.list
       THEN LET e == get_window_list_formatted(oswin, lastQueried) IN
            /\ windows' = e.windows /\ enumRaised' = e.raised
            /\ lastQueried' = e.queried
            /\ queries' = queries + 1
            /\ stdout' = IF e.windows = <<>> THEN stdout ELSE [NoOut EXCEPT !.kind = "list"]
            /\ pc' = "validate"
            /\ UNCHANGED <<exitCode, outcome>>
       ELSE /\ pc' = "validate"
            /\ UNCHANGED <<windows, enumRaised, lastQueried, queries, stdout, exitCode,
                           outcome>>
    /\ UNCHANGED <<envVars, entry, args, window, capVars, fileVars, pathState, capResult>>

\* main: "if args.list: list_windows()"; list_windows always exits.
main_list ==
    /\ entry = "main" /\ pc = "main"
    /\ IF args.list
       THEN LET e == get_window_list_formatted(oswin, lastQueried) IN
            /\ windows' = e.windows /\ enumRaised' = e.raised
            /\ lastQueried' = e.queried
            /\ queries' = queries + 1
            /\ IF e.windows = <<>>
               THEN stdout' = stdout /\ Exit(1, "list_empty")
               ELSE stdout' = [NoOut EXCEPT !.kind = "list"] /\ Exit(0, "listed")
       ELSE /\ pc' = "validate"
            /\ UNCHANGED <<windows, enumRaised, lastQueried, queries, stdout, exitCode,
                           outcome>>
    /\ UNCHANGED <<envVars, entry, args, window, capVars, fileVars, pathState, capResult>>

\* main: the window-name and threshold checks.
main_validate ==
    /\ entry = "main" /\ pc = "validate"
    /\ IF args.window_name = ""
       THEN Exit(1, "arg_error")
       ELSE IF ~(0 <= args.threshold /\ args.threshold <= 100)
       THEN Exit(1, "arg_error")
       ELSE pc' = "find" /\ UNCHANGED <<exitCode, outcome>>
    /\ UNCHANGED <<envVars, entry, args, findVars, capVars, fileVars, pathState,
                   capResult, stdout>>

\* capture_window (CLI): find_window and the no-match exit.
cli_find ==
    /\ entry = "main" /\ pc = "find"
    /\ LET f == find_window(oswin, score, args.threshold, lastQueried) IN
       /\ windows' = f.windows /\ enumRaised' = f.raised
       /\ lastQueried' = f.queried
       /\ window' = f.window
       /\ IF f.window = None
          THEN Exit(1, "no_match")
          ELSE pc' = "path" /\ UNCHANGED <<exitCode, outcome>>
    /\ queries' = queries + 1
    /\ UNCHANGED <<envVars, entry, args, capVars, fileVars, pathState, capResult, stdout>>

\* capture_window (CLI): generate_temp_path, or validate_output_path and its
\* ValueError handler.  generate_temp_path's mkdir may raise, which nothing catches.
cli_path ==
    /\ entry = "main" /\ pc = "path"
    /\ IF args.output = "none"
       THEN /\ calls' = calls \cup {"mkdir"}
            /\ \/ pathState' = "temp" /\ pc' = "capture" /\ UNCHANGED <<exitCode, outcome>>
               \/ pathState' = "invalid" /\ Exit(1, "traceback")
       ELSE IF validate_output_path(args.output) = "ValueError"
       THEN /\ calls' = IF args.output = "dir" THEN calls ELSE calls \cup {"mkdir"}
            /\ pathState' = "invalid" /\ Exit(1, "validation")
       ELSE /\ calls' = calls \cup {"mkdir"}
            /\ pathState' = "custom" /\ pc' = "capture" /\ UNCHANGED <<exitCode, outcome>>
    /\ UNCHANGED <<envVars, entry, args, findVars, rect, checked, held, cleanIdx,
                   printResult, directResult, fallbackAttempts, result, fileVars,
                   capResult, stdout>>

\* The capture step with handlers that report the error and carry on.
cli_capture_swallow ==
    /\ entry = "main" /\ pc = "capture"
    /\ calls' = calls \cup {"grab"}
    /\ \E grabOk \in BOOLEAN, saveOk \in BOOLEAN :
          LET c == capture_region(window.bbox, grabOk, saveOk) IN
          /\ capResult' = c.res
          /\ grabbed' = c.grabbed
          /\ destFile' = c.dest
          /\ pc' = "output" /\ UNCHANGED <<exitCode, outcome>>
    /\ UNCHANGED <<envVars, entry, args, findVars, rect, checked, held, cleanIdx,
                   printResult, directResult, fallbackAttempts, result, pathState, stdout>>

\* capture_window (CLI): capture_region(window["bbox"], output_path) and its
\* ValueError / Exception handlers.
cli_capture ==
    /\ entry = "main" /\ pc = "capture"
    /\ calls' = calls \cup {"grab"}
    /\ \E grabOk \in BOOLEAN, saveOk \in BOOLEAN :
          LET c == capture_region(window.bbox, grabOk, saveOk) IN
          /\ capResult' = c.res
          /\ grabbed' = c.grabbed
          /\ destFile' = c.dest
          /\ IF c.res = "ValueError" THEN Exit(1, "capture_error")
             ELSE IF c.res = "Exception" THEN Exit(1, "unexpected_error")
             ELSE pc' = "output" /\ UNCHANGED <<exitCode, outcome>>
    /\ UNCHANGED <<envVars, entry, args, findVars, rect, checked, held, cleanIdx,
                   printResult, directResult, fallbackAttempts, result, pathState, stdout>>

\* The output step reporting the window's bounds as they are now.
cli_output_requery ==
    /\ entry = "main" /\ pc = "output"
    /\ stdout' = IF args.json
                 THEN [kind |-> "json", title |-> window.title,
                       bbox |-> OsWin(oswin, window.handle).rect]
                 ELSE [NoOut EXCEPT !.kind = "path"]
    /\ Exit(0, "ok")
    /\ UNCHANGED <<envVars, entry, args, findVars, capVars, fileVars, pathState, capResult>>

\* capture_window (CLI): the JSON record or the path on stdout; main: sys.exit(0).
cli_output ==
    /\ entry = "main" /\ pc = "output"
    /\ stdout' = IF args.json
                 THEN [kind |-> "json", title |-> window.title, bbox |-> window.bbox]
                 ELSE [NoOut EXCEPT !.kind = "path"]
    /\ Exit(0, "ok")
    /\ UNCHANGED <<envVars, entry, args, findVars, capVars, fileVars, pathState, capResult>>

NextMain ==
    \/ main_list \/ main_validate \/ cli_find \/ cli_path \/ cli_capture \/ cli_output

\* --------------------------------------------------------- specification
Init == InitCapture \/ InitMain

Next == NextCapture \/ NextMain \/ EnvMove

Spec == Init /\ [][Next]_vars

\* =========================================================== claims
\* ---- helpers of the claims' statements
Throwing(os, i) ==
    os[i].state = "ok" /\ os[i].title # "" /\ os[i].rectThrows
Qualifies(os, i) ==
    /\ os[i].state = "ok" /\ os[i].title # "" /\ ~os[i].rectThrows
    /\ os[i].rect[3] > os[i].rect[1] /\ os[i].rect[4] > os[i].rect[2]
MaxScoreOf(ws) ==
    CHOOSE m \in {score[ws[i].title] : i \in DOMAIN ws} :
        \A i \in DOMAIN ws : score[ws[i].title] <= m
IndexesOf(ws, t) == {i \in DOMAIN ws : ws[i].title = t}
MaxOf(S) == CHOOSE x \in S : \A y \in S : y <= x
MinOf(S) == CHOOSE x \in S : \A y \in S : x <= y

\* C9: every record find_all_windows returns refers to a valid visible window, has
\* a non-empty title and bounds with right > left and bottom > top; a window whose
\* bounds query throws is skipped without raising, and windows enumerated after it
\* are still included.
C9_EnumeratedRecordsValid ==
    (entry = "enum" /\ pc = "done") =>
        /\ ~enumRaised
        /\ \A k \in DOMAIN windows :
              LET r == windows[k]
                  w == OsWin(oswin, r.handle)
              IN /\ r.handle \in DOMAIN oswin
                 /\ w.state = "ok"
                 /\ r.title # "" /\ r.title = w.title
                 /\ ~w.rectThrows /\ r.bbox = w.rect
                 /\ r.bbox[3] > r.bbox[1] /\ r.bbox[4] > r.bbox[2]
        /\ \A i, j \in DOMAIN oswin :
              (i < j /\ Throwing(oswin, i) /\ Qualifies(oswin, j))
                  => \E k \in DOMAIN windows : windows[k].handle = j

C9_Witness ==
    /\ entry = "enum" /\ pc = "done"
    /\ \E i, j \in DOMAIN oswin :
          /\ i < j /\ Throwing(oswin, i) /\ Qualifies(oswin, j)
          /\ \E k \in DOMAIN windows : windows[k].handle = j

\* C4: find_window returns None when no window was enumerated; otherwise it returns
\* a window exactly when the highest score over the enumerated titles is >= the
\* threshold, and the returned window's title has that highest score.
C4_FindWindowBestAboveThreshold ==
    (entry = "find" /\ pc = "done") =>
        IF windows = <<>>
        THEN window = None
        ELSE /\ (window # None) <=> (MaxScoreOf(windows) >= args.threshold)
             /\ (window # None) =>
                   /\ \E k \in DOMAIN windows : windows[k] = window
                   /\ score[window.title] = MaxScoreOf(windows)

C4_Witness ==
    /\ entry = "find" /\ pc = "done"
    /\ window # None
    /\ MaxScoreOf(windows) = args.threshold
    /\ \E k \in DOMAIN windows : score[windows[k].title] < args.threshold

\* C10: when several enumerated windows share the selected title, the returned
\* record is the last of them in enumeration order, and the title competes in a
\* tie at the position of its first occurrence.
C10_DuplicateTitleLastRecordFirstPosition ==
    (entry = "find" /\ pc = "done" /\ window # None
        /\ Cardinality(IndexesOf(windows, window.title)) >= 2) =>
        LET idx == IndexesOf(windows, window.title) IN
        /\ window = windows[MaxOf(idx)]
        /\ \A j \in DOMAIN windows :
              score[windows[j].title] = score[window.title] => MinOf(idx) <= j

C10_Witness ==
    /\ entry = "find" /\ pc = "done" /\ window # None
    /\ LET idx == IndexesOf(windows, window.title) IN
       /\ Cardinality(idx) >= 2
       /\ windows[MinOf(idx)] # windows[MaxOf(idx)]
       /\ \E j \in DOMAIN windows :
             /\ MinOf(idx) < j /\ j < MaxOf(idx)
             /\ windows[j].title # window.title
             /\ score[windows[j].title] = score[window.title]

\* ---- helpers of the capture and CLI claims
FallbackPcs == {"fb_foreground", "fb_grab", "fb_save"}
PreconditionFails(w) ==
    \/ ~IsWindow(w) \/ ~IsWindowVisible(w)
    \/ IsIconic(w)
    \/ /\ ~w.rectThrows
       /\ (w.rect[3] - w.rect[1] <= 0 \/ w.rect[4] - w.rect[2] <= 0)
ValidCaptureArgs ==
    /\ entry = "main" /\ args.window_name # "" /\ ~args.list
    /\ 0 <= args.threshold /\ args.threshold <= 100

C2_DirectTierReleasesEverything ==
    (entry = "capture_window" /\ directResult # "none") => held = {}

\* C3: an invocation that ends with an argument error exits with code 1 without
\* any window enumeration having been performed, whatever the other flags are.
C3_ArgumentErrorBeforeAnyQuery ==
    (entry = "main" /\ outcome = "arg_error") =>
        /\ exitCode = 1
        /\ queries = 0 /\ windows = <<>> /\ lastQueried = <<>>
        /\ stdout = NoOut

C3_Witness ==
    /\ entry = "main" /\ outcome = "arg_error"
    /\ args.window_name # "" /\ args.threshold > 100 /\ args.json
    /\ oswin # <<>>

\* C5: a capture that ends in an error has written nothing at the destination
\* path, also when the PrintWindow tier's save failed and the fallback failed too.
C5_ErrorLeavesNoFile ==
    /\ (entry = "capture_window" /\ pc = "done" /\ result # "ok") => destFile = "absent"
    /\ (entry = "main" /\ pc = "done" /\ exitCode # 0) => destFile = "absent"

\* C6: capture_window on a window that its checks find invalid, invisible,
\* minimized or of width or height <= 0 ends with ValueError before any device
\* context, bitmap, PrintWindow, foreground activation, region grab, directory or
\* file has been touched.
C6_PreconditionFailsBeforeAnyPrimitive ==
    (entry = "capture_window" /\ pc # "cw_check" /\ PreconditionFails(checked)) =>
        /\ pc = "done" /\ result = "ValueError"
        /\ calls = {} /\ held = {}
        /\ printResult = -1 /\ fallbackAttempts = 0
        /\ destFile = "absent" /\ grabbed = NoRect

C6_Witness ==
    /\ entry = "capture_window" /\ pc = "done" /\ result = "ValueError"
    /\ checked.state = "ok" /\ ~checked.iconic /\ ~checked.rectThrows
    /\ checked.rect[3] - checked.rect[1] = 0

C8_ExitZeroIffCaptured ==
    ValidCaptureArgs =>
        /\ exitCode \in {-1, 0, 1}
        /\ exitCode = -1 <=> pc # "done"
        /\ pc = "done" =>
              (exitCode = 0 <=> /\ window # None
                                /\ pathState \in {"temp", "custom"}
                                /\ capResult = "ok")
        /\ stdout.kind # "none" <=> exitCode = 0
        /\ exitCode = 0 => stdout.kind = (IF args.json THEN "json" ELSE "path")

C8_Witness ==
    /\ ValidCaptureArgs /\ pc = "done" /\ exitCode = 1
    /\ window # None /\ pathState = "custom" /\ capResult = "Exception"
    /\ stdout = NoOut

====
